---- MODULE Spec2Model ----
(***************************************************************************)
(* A model of src/app.py: the Streamlit script that collects PVC pipe      *)
(* production problems, builds the Pareto table, the problem x machine-part *)
(* heatmap and the prompt for the text-generation service.                 *)
(*                                                                         *)
(* One run of the script is: the input loop (lines 57-79) appends one      *)
(* entry per iteration to problem_data, then the button handler (lines     *)
(* 82-233) runs.  The handler blocks in openai.chat.completions.create     *)
(* (line 211); that is the one place where the run waits on the outside,    *)
(* so the handler is split there: Analyze runs lines 82-211 and AiReturn   *)
(* runs lines 216-233 with the outcome of the call.                        *)
(*                                                                         *)
(* The "Machine No." column (lines 71, 77, 182-192) only adds text to the  *)
(* prompt and is left out.  Python indices are kept 0-based where the code  *)
(* stores them (first_over_80_idx); sequences are 1-based, so row k of the  *)
(* code is df_pareto[k + 1].                                               *)
(***************************************************************************)
EXTENDS Integers, Sequences, FiniteSets, TLC

VARIABLES
    i,                \* iterations of the input loop done in this run (line 57)
    problem_data,     \* line 55: the entries appended so far
    pc,               \* "form" | "calling" | "done"
    df_pareto,        \* lines 91-96: rows [Problem, Count, Cumulative]
    first_over_80_idx,\* lines 100-102
    bar_colors,       \* lines 99-106
    heatmap_entries,  \* lines 125-133
    heatmap_pivot_data, \* lines 140-145
    top_problem_names,  \* line 167
    likely_machine_parts, \* line 186, one list per top problem
    shown,            \* what the run has put on the page (st.warning, st.pyplot, ...)
    ai_calls,         \* invocations of openai.chat.completions.create in this run
    ai_outcome,       \* how the invocation ended: "none" | "ok" | "APIError" | "Exception"
    uncaught,         \* an exception left the handler
    default_problem_to_part_mapping \* lines 31-47

vars == <<i, problem_data, pc, df_pareto, first_over_80_idx, bar_colors,
          heatmap_entries, heatmap_pivot_data, top_problem_names,
          likely_machine_parts, shown, ai_calls, ai_outcome, uncaught,
          default_problem_to_part_mapping>>

-----------------------------------------------------------------------------
(* Bounds of the model *)

MaxEntries == 3      \* num_problem_entries explored by Spec (the widget allows up to MaxNumEntries)
MaxCount == 3        \* largest Count typed into one entry (the widget has no maximum)
MaxEntriesDefault == 5  \* num_problem_entries explored by SpecDefaultCount

(* Program constants *)

MaxNumEntries == 30   \* line 51: max_value of "Number of problem entries"
MinCount == 1         \* line 69: min_value of "Count"
DefaultCount == 1     \* line 69: value of "Count" when the user leaves it alone
VitalThreshold == 80  \* line 102: cum_perc > 80
TopProblems == 3      \* line 165: min(len(df_pareto), 3)
Percent == 100        \* line 96: * 100

-----------------------------------------------------------------------------
(* Static data, lines 14-47 *)

OtherOption == "Other (please specify)"

machine_parts_list_for_heatmap ==
    << "Feeding system", "Extruder head", "Die/mandrel", "Cooling system",
       "Haul Off unit", "Cutting unit", "Belling Unit", "Unmapped/Other" >>

StaticMapping ==
    [p \in { "Uneven wall thickness", "Rough surface (internal/external)",
             "Cracks or longitudinal splits", "Pipe warping or bending (ovality)",
             "Color inconsistency / streaks", "Bubbles, voids, or blisters",
             "Underfilled / short pipe", "Burning / degradation marks",
             "Poor gelation / unmelted particles", "Contamination (black specks)",
             "Die lines / flow marks", "Excessive flash or burrs",
             "Low impact strength", "Dimensional instability",
             "Bell end deformation / defects" } |->
        CASE p = "Uneven wall thickness" -> <<"Die/mandrel", "Extruder head">>
          [] p = "Rough surface (internal/external)" -> <<"Die/mandrel", "Cooling system", "Extruder head">>
          [] p = "Cracks or longitudinal splits" -> <<"Cooling system", "Haul Off unit", "Die/mandrel">>
          [] p = "Pipe warping or bending (ovality)" -> <<"Cooling system", "Die/mandrel", "Haul Off unit">>
          [] p = "Color inconsistency / streaks" -> <<"Feeding system", "Extruder head">>
          [] p = "Bubbles, voids, or blisters" -> <<"Extruder head", "Die/mandrel", "Feeding system">>
          [] p = "Underfilled / short pipe" -> <<"Extruder head", "Feeding system">>
          [] p = "Burning / degradation marks" -> <<"Extruder head", "Die/mandrel">>
          [] p = "Poor gelation / unmelted particles" -> <<"Extruder head", "Feeding system">>
          [] p = "Contamination (black specks)" -> <<"Feeding system">>
          [] p = "Die lines / flow marks" -> <<"Die/mandrel">>
          [] p = "Excessive flash or burrs" -> <<"Die/mandrel", "Cutting unit">>
          [] p = "Low impact strength" -> <<"Extruder head", "Cooling system">>
          [] p = "Dimensional instability" -> <<"Die/mandrel", "Cooling system", "Haul Off unit">>
          [] p = "Bell end deformation / defects" -> <<"Belling Unit", "Cutting unit">>]

(* The inputs explored: selectbox options that the mapping knows (with two, *)
(* one and three parts), and the "Other" escape with a free text that is   *)
(* either a name with surrounding blanks or only blanks.                   *)
SelectChoices ==
    { "Uneven wall thickness", "Contamination (black specks)", OtherOption }

SelectChoicesDefault == SelectChoices \cup { "Cracks or longitudinal splits" }

CustomTexts == { " Custom defect ", "  " }

(* str.strip() on the texts above (lines 73, 75) *)
Strip(s) ==
    CASE s = " Custom defect " -> "Custom defect"
      [] s = "  " -> ""
      [] OTHER -> s

-----------------------------------------------------------------------------
(* IEEE-754 binary64 arithmetic, as pandas evaluates line 96:              *)
(*   df_pareto["Count"].cumsum() / df_pareto["Count"].sum() * 100          *)
(* The int64 operands are converted exactly (they are far below 2^53), the  *)
(* quotient is rounded to nearest-even, and so is the product with 100.    *)
(* A double is [e, hi, mid, lo]: value = (hi*2^34 + mid*2^16 + lo) *       *)
(* 2^(e-52), with the 53-bit significand cut into limbs of 19, 18 and 16   *)
(* bits (2^18 <= hi < 2^19).                                               *)

B16 == 2^16
B17 == 2^17
B18 == 2^18
B19 == 2^19

FZero == [e |-> -1075, hi |-> 0, mid |-> 0, lo |-> 0]

(* round to nearest, ties to even, given the first dropped bit and whether  *)
(* anything non-zero follows it                                            *)
RoundEven(e, hi, mid, lo, guard, sticky) ==
    IF ~(guard = 1 /\ (sticky \/ lo % 2 = 1)) THEN [e |-> e, hi |-> hi, mid |-> mid, lo |-> lo]
    ELSE IF lo + 1 < B16 THEN [e |-> e, hi |-> hi, mid |-> mid, lo |-> lo + 1]
    ELSE IF mid + 1 < B18 THEN [e |-> e, hi |-> hi, mid |-> mid + 1, lo |-> 0]
    ELSE IF hi + 1 < B19 THEN [e |-> e, hi |-> hi + 1, mid |-> 0, lo |-> 0]
    ELSE [e |-> e + 1, hi |-> B18, mid |-> 0, lo |-> 0]

(* float(c) / float(t), correctly rounded; call with e = 0 *)
RECURSIVE FDivInt(_, _, _)
FDivInt(c, t, e) ==
    IF c = 0 THEN FZero
    ELSE IF c >= 2 * t THEN FDivInt(c, 2 * t, e + 1)
    ELSE IF c < t THEN FDivInt(2 * c, t, e - 1)
    ELSE LET r0 == c - t
             d1 == (r0 * B18) \div t
             r1 == (r0 * B18) % t
             d2 == (r1 * B18) \div t
             r2 == (r1 * B18) % t
             d3 == (r2 * B17) \div t
             r3 == (r2 * B17) % t
         IN  RoundEven(e, B18 + d1, d2, d3 \div 2, d3 % 2, r3 # 0)

(* float(n) for an int that a double holds exactly *)
IntToF(n) == FDivInt(n, 1, 0)

RECURSIVE BitLen(_)
BitLen(n) == IF n = 0 THEN 0 ELSE 1 + BitLen(n \div 2)

(* x * float(k), correctly rounded, for a small positive int k *)
FMulInt(x, k) ==
    IF x = FZero \/ k = 0 THEN FZero
    ELSE LET pl   == x.lo * k
             pm   == x.mid * k + pl \div B16
             ph   == x.hi * k + pm \div B18
             s    == BitLen(ph) - 19
             S    == 2^s
             lo0  == pl % B16
             mid0 == pm % B18
             hi1  == ph \div S
             mid1 == ((ph % S) * B18 + mid0) \div S
             lo1  == ((mid0 % S) * B16 + lo0) \div S
             drop == lo0 % S
         IN  IF s = 0 THEN [e |-> x.e, hi |-> ph, mid |-> mid0, lo |-> lo0]
             ELSE RoundEven(x.e + s, hi1, mid1, lo1,
                            drop \div (2^(s - 1)), drop % (2^(s - 1)) # 0)

(* a < b on non-negative doubles *)
FLess(a, b) ==
    \/ a.e < b.e
    \/ a.e = b.e /\ a.hi < b.hi
    \/ a.e = b.e /\ a.hi = b.hi /\ a.mid < b.mid
    \/ a.e = b.e /\ a.hi = b.hi /\ a.mid = b.mid /\ a.lo < b.lo

FLeq(a, b) == a = b \/ FLess(a, b)

-----------------------------------------------------------------------------
(* Pareto table, lines 91-96 *)

Min(a, b) == IF a <= b THEN a ELSE b

RECURSIVE SumCount(_)
SumCount(rows) ==
    IF rows = <<>> THEN 0 ELSE rows[1].Count + SumCount(Tail(rows))

Problems(rows) == { rows[k].Problem : k \in DOMAIN rows }

RowsOf(rows, p) == SelectSeq(rows, LAMBDA r : r.Problem = p)

(* line 91: groupby("Problem", as_index=False)["Count"].sum() *)
GroupBySum(rows) == [p \in Problems(rows) |-> SumCount(RowsOf(rows, p))]

PositiveCounts_drop1(g) == { p \in DOMAIN g : g[p] > 1 }

(* line 92: df_pareto[df_pareto["Count"] > 0] *)
PositiveCounts(g) == { p \in DOMAIN g : g[p] > 0 }

(* every problem name a run can hold *)
AllProblems ==
    { Strip(IF c = OtherOption THEN t ELSE c) : c \in SelectChoicesDefault, t \in CustomTexts }
        \ { "" }

Orders ==
    [S \in SUBSET AllProblems |->
        { f \in [1..Cardinality(S) -> S] :
            \A a, b \in 1..Cardinality(S) : a # b => f[a] # f[b] }]

SortValues_ascending(g, keep) ==
    { [k \in DOMAIN f |-> [Problem |-> f[k], Count |-> g[f[k]]]] :
        f \in { h \in Orders[keep] :
                  \A k \in 1..(Cardinality(keep) - 1) : g[h[k]] <= g[h[k + 1]] } }

(* line 92: sort_values(by="Count", ascending=False).reset_index(drop=True). *)
(* The default sort kind is not stable, so rows with equal Count may come  *)
(* out in any order: the result is any of the descending arrangements.     *)
SortValues(g, keep) ==
    { [k \in DOMAIN f |-> [Problem |-> f[k], Count |-> g[f[k]]]] :
        f \in { h \in Orders[keep] :
                  \A k \in 1..(Cardinality(keep) - 1) : g[h[k]] >= g[h[k + 1]] } }

CumSum_no_running(tbl, k) == tbl[k].Count

(* line 96: df_pareto["Count"].cumsum(), at row k *)
CumSum(tbl, k) == SumCount(SubSeq(tbl, 1, k))

GrandTotal_max(tbl) == tbl[1].Count

(* line 96: df_pareto["Count"].sum() *)
GrandTotal(tbl) == SumCount(tbl)

(* line 96: the "Cumulative %" column added to the sorted table *)
WithCumulative(tbl) ==
    [k \in DOMAIN tbl |->
        [Problem |-> tbl[k].Problem, Count |-> tbl[k].Count,
         Cumulative |-> FMulInt(FDivInt(CumSum(tbl, k), GrandTotal(tbl), 0), Percent)]]

FirstOver80_geq(tbl) ==
    IF \E k \in DOMAIN tbl : FLeq(IntToF(VitalThreshold), tbl[k].Cumulative)
    THEN (CHOOSE k \in DOMAIN tbl :
            /\ FLeq(IntToF(VitalThreshold), tbl[k].Cumulative)
            /\ \A j \in 1..(k - 1) : ~FLeq(IntToF(VitalThreshold), tbl[j].Cumulative)) - 1
    ELSE -1

(* lines 100-102: index of the first row with cum_perc > 80, or -1 *)
FirstOver80(tbl) ==
    IF \E k \in DOMAIN tbl : FLess(IntToF(VitalThreshold), tbl[k].Cumulative)
    THEN (CHOOSE k \in DOMAIN tbl :
            /\ FLess(IntToF(VitalThreshold), tbl[k].Cumulative)
            /\ \A j \in 1..(k - 1) : ~FLess(IntToF(VitalThreshold), tbl[j].Cumulative)) - 1
    ELSE -1

(* lines 99, 103-106 *)
BarColors(tbl, idx) ==
    IF idx # -1
    THEN [k \in DOMAIN tbl |-> IF k - 1 <= idx THEN "crimson" ELSE "deepskyblue"]
    ELSE [k \in DOMAIN tbl |-> "crimson"]

-----------------------------------------------------------------------------
(* Heatmap, lines 125-145 *)

DictGet(d, key, default) == IF key \in DOMAIN d THEN d[key] ELSE default

HeatmapParts_other(mapping, name) == DictGet(mapping, name, <<"N/A or Other">>)

(* line 131 *)
HeatmapParts(mapping, name) == DictGet(mapping, name, <<"Unmapped/Other">>)

(* line 186 *)
PromptParts(mapping, name) == DictGet(mapping, name, <<"Not specifically mapped">>)

EntriesOfRow_first(mapping, row) ==
    << [Problem |-> row.Problem, Part |-> HeatmapParts(mapping, row.Problem)[1],
        Count |-> row.Count] >>

(* lines 132-133: one heatmap entry per mapped part of the row *)
EntriesOfRow(mapping, row) ==
    [k \in DOMAIN HeatmapParts(mapping, row.Problem) |->
        [Problem |-> row.Problem, Part |-> HeatmapParts(mapping, row.Problem)[k],
         Count |-> row.Count]]

(* lines 125-133 *)
RECURSIVE HeatmapEntries(_, _)
HeatmapEntries(mapping, rows) ==
    IF rows = <<>> THEN <<>>
    ELSE EntriesOfRow(mapping, rows[1]) \o HeatmapEntries(mapping, Tail(rows))

Range(s) == { s[k] : k \in DOMAIN s }

(* lines 140-143: groupby(["Problem", "Machine Part"]).sum().unstack(0),   *)
(* reindexed to the fixed column list: a cell is the sum of the entries of  *)
(* that problem and part, 0 when there is none                             *)
PivotCell(entries, p, part) ==
    SumCount(SelectSeq(entries, LAMBDA r : r.Problem = p /\ r.Part = part))

(* lines 140-145, with the all-zero rows dropped (line 145) *)
HeatmapPivot(entries) ==
    LET table == [p \in Problems(entries) |->
                     [part \in Range(machine_parts_list_for_heatmap) |->
                         PivotCell(entries, p, part)]]
    IN  [p \in { q \in DOMAIN table :
                   \E part \in Range(machine_parts_list_for_heatmap) :
                       table[q][part] # 0 } |-> table[p]]

-----------------------------------------------------------------------------
(* Prompt, lines 165-187 *)

NumTop_vital(tbl) == Min(Len(tbl), FirstOver80(tbl) + 1)

(* line 165 *)
NumTop(tbl) == Min(Len(tbl), TopProblems)

(* line 167: df_pareto.head(n)["Problem"].tolist() *)
TopNames(tbl) == [k \in 1..NumTop(tbl) |-> tbl[k].Problem]

-----------------------------------------------------------------------------
(* The page and the external call *)

WarnNoEntries == "warning: Please enter at least one problem entry."
ErrNoValidCounts == "error: No problems with valid counts for Pareto analysis."
ParetoChart == "pyplot: fig_pareto"
HeatmapChart == "pyplot: fig_heatmap"
InfoNoHeatmapData == "info: No data available to generate heatmap based on problem mapping."
InfoNothingMapped == "info: No problem occurrences could be mapped to specific machine parts for the heatmap display."
InfoNotEnough == "info: Not enough distinct problems identified from Pareto analysis to forward to AI."
AiMarkdown == "markdown: ai_response_text"
ErrApi == "error: OpenAI API error"
ErrUnexpected == "error: Unexpected error"
TextAiResponse == "text: AI response"
DownloadPareto == "download_button: dl_pareto"
DownloadRaw == "download_button: dl_raw"

(* what openai.chat.completions.create and the two lines after it can do *)
Outcomes == { "ok", "APIError", "Exception" }

NoEntries_never(data) == FALSE

(* line 83: not problem_data *)
NoEntries(data) == data = <<>>

Catches_api_only(outcome) == outcome = "APIError"

(* lines 218-219: except openai.APIError / except Exception *)
Catches(outcome) == outcome \in { "APIError", "Exception" }

(* lines 217-219: what the try statement puts on the page *)
TryShows(outcome) ==
    CASE outcome = "ok" -> { AiMarkdown }
      [] outcome = "APIError" -> { ErrApi }
      [] OTHER -> { ErrUnexpected, TextAiResponse }

(* lines 224-233 *)
Downloads(df) ==
    (IF df # <<>> THEN { DownloadPareto } ELSE {}) \cup { DownloadRaw }

-----------------------------------------------------------------------------
(* The state machine *)

Init ==
    /\ i = 0
    /\ problem_data = <<>>
    /\ pc = "form"
    /\ df_pareto = <<>>
    /\ first_over_80_idx = -1
    /\ bar_colors = <<>>
    /\ heatmap_entries = <<>>
    /\ heatmap_pivot_data = <<>>
    /\ top_problem_names = <<>>
    /\ likely_machine_parts = <<>>
    /\ shown = {}
    /\ ai_calls = 0
    /\ ai_outcome = "none"
    /\ uncaught = FALSE
    /\ default_problem_to_part_mapping = StaticMapping

(* lines 57-79: one iteration of the input loop.  num_problem_entries is   *)
(* whatever number of iterations the loop has done when the button is      *)
(* reached, 1..MaxNumEntries.                                              *)
InputLoop(choices, counts, entries) ==
    /\ pc = "form"
    /\ i < Min(entries, MaxNumEntries)
    /\ \E selected_problem \in choices, custom \in CustomTexts, count \in counts :
         LET problem_name == IF selected_problem = OtherOption
                             THEN custom ELSE selected_problem
         IN  problem_data' =
                IF Strip(problem_name) # ""
                THEN Append(problem_data,
                            [Problem |-> Strip(problem_name), Count |-> count])
                ELSE problem_data
    /\ i' = i + 1
    /\ UNCHANGED <<pc, df_pareto, first_over_80_idx, bar_colors, heatmap_entries,
                   heatmap_pivot_data, top_problem_names, likely_machine_parts,
                   shown, ai_calls, ai_outcome, uncaught,
                   default_problem_to_part_mapping>>

(* lines 82-211: the button is pressed; the handler runs up to the call of  *)
(* the text-generation service, or to its end when it does not call         *)
Analyze ==
    /\ pc = "form"
    /\ i >= 1
    /\ IF NoEntries(problem_data)
       THEN /\ shown' = shown \cup { WarnNoEntries }
            /\ pc' = "done"
            /\ UNCHANGED <<df_pareto, first_over_80_idx, bar_colors, heatmap_entries,
                           heatmap_pivot_data, top_problem_names,
                           likely_machine_parts, ai_calls>>
       ELSE \E tbl \in LET g == GroupBySum(problem_data)
                       IN  SortValues(g, PositiveCounts(g)) :
            LET df      == IF tbl = <<>> THEN <<>> ELSE WithCumulative(tbl)
                idx     == IF df = <<>> THEN -1 ELSE FirstOver80(df)
                entries == HeatmapEntries(default_problem_to_part_mapping, problem_data)
                pivot   == IF entries = <<>> THEN <<>> ELSE HeatmapPivot(entries)
                calling == NumTop(df) > 0 /\ df # <<>>
                top     == IF calling THEN TopNames(df) ELSE <<>>
            IN  /\ df_pareto' = df
                /\ first_over_80_idx' = idx
                /\ bar_colors' = IF df = <<>> THEN <<>> ELSE BarColors(df, idx)
                /\ heatmap_entries' = entries
                /\ heatmap_pivot_data' = pivot
                /\ top_problem_names' = top
                /\ likely_machine_parts' =
                       [k \in DOMAIN top |->
                           PromptParts(default_problem_to_part_mapping, top[k])]
                /\ ai_calls' = IF calling THEN ai_calls + 1 ELSE ai_calls
                /\ pc' = IF calling THEN "calling" ELSE "done"
                /\ shown' = shown
                     \cup (IF df = <<>> THEN { ErrNoValidCounts } ELSE { ParetoChart })
                     \cup (IF entries = <<>> THEN { InfoNoHeatmapData }
                           ELSE IF pivot = <<>> THEN { InfoNothingMapped }
                           ELSE { HeatmapChart })
                     \cup (IF calling THEN {} ELSE { InfoNotEnough } \cup Downloads(df))
    /\ UNCHANGED <<i, problem_data, ai_outcome, uncaught,
                   default_problem_to_part_mapping>>

(* lines 211-233: the call returns or raises; the try statement handles it  *)
(* and the handler runs to its end                                          *)
AiReturn ==
    /\ pc = "calling"
    /\ \E outcome \in Outcomes :
         /\ ai_outcome' = outcome
         /\ IF outcome = "ok" \/ Catches(outcome)
            THEN /\ shown' = shown \cup TryShows(outcome) \cup Downloads(df_pareto)
                 /\ uncaught' = uncaught
            ELSE /\ shown' = shown
                 /\ uncaught' = TRUE
    /\ pc' = "done"
    /\ UNCHANGED <<i, problem_data, df_pareto, first_over_80_idx, bar_colors,
                   heatmap_entries, heatmap_pivot_data, top_problem_names,
                   likely_machine_parts, ai_calls, default_problem_to_part_mapping>>

(* the script ends and the next interaction runs it again from the top     *)
Rerun ==
    /\ pc = "done" \/ (pc = "form" /\ i >= 1)
    /\ i' = 0
    /\ problem_data' = <<>>
    /\ pc' = "form"
    /\ df_pareto' = <<>>
    /\ first_over_80_idx' = -1
    /\ bar_colors' = <<>>
    /\ heatmap_entries' = <<>>
    /\ heatmap_pivot_data' = <<>>
    /\ top_problem_names' = <<>>
    /\ likely_machine_parts' = <<>>
    /\ shown' = {}
    /\ ai_calls' = 0
    /\ ai_outcome' = "none"
    /\ uncaught' = FALSE
    /\ UNCHANGED default_problem_to_part_mapping

(* the user picks problems and types counts *)
LoopEntry == InputLoop(SelectChoices, MinCount..MaxCount, MaxEntries)

(* the user picks problems and leaves every Count at its default *)
LoopEntryDefault == InputLoop(SelectChoicesDefault, { DefaultCount }, MaxEntriesDefault)

Next == LoopEntry \/ Analyze \/ AiReturn \/ Rerun

Spec == Init /\ [][Next]_vars

NextDefault == LoopEntryDefault \/ Analyze \/ AiReturn \/ Rerun

SpecDefaultCount == Init /\ [][NextDefault]_vars

-----------------------------------------------------------------------------
(* Properties *)

Pressed == pc # "form"

RECURSIVE SumPositive(_)
SumPositive(rows) ==
    IF rows = <<>> THEN 0
    ELSE (IF rows[1].Count > 0 THEN rows[1].Count ELSE 0) + SumPositive(Tail(rows))

Cum(k) == df_pareto[k].Cumulative

F80 == IntToF(80)
F100 == IntToF(100)

(* C1: for every non-empty sequence of entries with at least one positive  *)
(* count, the Count column of the Pareto table sums to the sum of the      *)
(* positive counts of the entries.                                         *)
C1_CountSumPreserved ==
    (Pressed /\ problem_data # <<>> /\ \E k \in DOMAIN problem_data : problem_data[k].Count > 0)
        => SumCount(df_pareto) = SumPositive(problem_data)

C1_Witness ==
    /\ pc = "done"
    /\ Len(problem_data) = 3
    /\ Len(df_pareto) = 2
    /\ SumCount(df_pareto) = 5

(* C2: the Cumulative % of the last row of a non-empty Pareto table is     *)
(* exactly 100.0, and the grand total it was divided by is > 0.            *)
C2_LastRowIs100 ==
    (Pressed /\ df_pareto # <<>>)
        => /\ Cum(Len(df_pareto)) = F100
           /\ SumCount(df_pareto) > 0

C2_Witness ==
    /\ pc = "done"
    /\ Len(df_pareto) = 3
    /\ SumCount(df_pareto) = 7
    /\ Cum(3) = F100
    /\ FLess(Cum(2), F100)

(* C3: first_over_80_idx is the index k of the first row whose Cumulative % *)
(* is strictly above 80: row k is above 80, every earlier row is at most   *)
(* 80, rows 0..k are highlighted and the rows after k are not; a row at    *)
(* exactly 80 is not the boundary (counts 8 and 2 give k = 1); when no row *)
(* is above 80 every row is highlighted.                                   *)
C3_VitalFewBoundary ==
    (Pressed /\ df_pareto # <<>>) =>
        LET k == first_over_80_idx
            n == Len(df_pareto)
        IN  /\ IF \E j \in 1..n : FLess(F80, Cum(j))
               THEN /\ k \in 0..(n - 1)
                    /\ FLess(F80, Cum(k + 1))
                    /\ \A j \in 1..k : FLeq(Cum(j), F80)
                    /\ \A j \in 1..n :
                         bar_colors[j] = IF j - 1 <= k THEN "crimson" ELSE "deepskyblue"
               ELSE /\ k = -1
                    /\ \A j \in 1..n : bar_colors[j] = "crimson"
            /\ \A j \in 1..n :
                 5 * SumCount(SubSeq(df_pareto, 1, j)) = 4 * SumCount(df_pareto) => k # j - 1
            /\ (n = 2 /\ df_pareto[1].Count = 8 /\ df_pareto[2].Count = 2) => k = 1

C3_Witness ==
    /\ pc = "done"
    /\ Len(df_pareto) = 2
    /\ df_pareto[1].Count = 4
    /\ df_pareto[2].Count = 1
    /\ Cum(1) = F80
    /\ first_over_80_idx = 1
    /\ bar_colors = <<"crimson", "crimson">>

(* C4: the rows of the Pareto table are in descending order of Count.      *)
C4_SortedDescending ==
    Pressed => \A k \in 1..(Len(df_pareto) - 1) : df_pareto[k].Count >= df_pareto[k + 1].Count

C4_Witness ==
    /\ pc = "done"
    /\ Len(df_pareto) = 3
    /\ df_pareto[1].Count > df_pareto[2].Count
    /\ df_pareto[2].Count > df_pareto[3].Count

(* C5: Cumulative % never decreases from one row to the next.              *)
C5_CumulativeNonDecreasing ==
    Pressed => \A k \in 1..(Len(df_pareto) - 1) : FLeq(Cum(k), Cum(k + 1))

C5_Witness ==
    /\ pc = "done"
    /\ Len(df_pareto) = 3
    /\ FLess(Cum(1), Cum(2))
    /\ FLess(Cum(2), Cum(3))
    /\ FLess(Cum(1), F80)

(* C6: the problems put into the prompt are exactly the first              *)
(* min(3, rowCount) rows of the Pareto table, in table order, wherever the *)
(* 80% boundary falls.                                                     *)
C6_TopIsPrefix ==
    (Pressed /\ df_pareto # <<>>) =>
        /\ Len(top_problem_names) = Min(3, Len(df_pareto))
        /\ \A k \in 1..Len(top_problem_names) : top_problem_names[k] = df_pareto[k].Problem

C6_Witness ==
    /\ pc = "done"
    /\ Len(df_pareto) = 4
    /\ Len(top_problem_names) = 3
    /\ first_over_80_idx = 3

ZeroCounts(rows) == [k \in DOMAIN rows |-> [Problem |-> rows[k].Problem, Count |-> 0]]

(* C7: Analyze with no entries shows the warning, and Analyze with entries *)
(* whose counts are all zero shows the error; in both cases no Pareto      *)
(* chart and no heatmap are rendered and the service is not called.  The   *)
(* Count widget never yields 0, so the last conjunct applies the handler's *)
(* own steps to the entries with their counts set to 0: the Pareto table   *)
(* and the heatmap pivot come out empty and no problem is forwarded.       *)
C7_NothingToAnalyze ==
    /\ (Pressed /\ problem_data = <<>>) =>
          /\ WarnNoEntries \in shown
          /\ ParetoChart \notin shown /\ HeatmapChart \notin shown
          /\ ai_calls = 0 /\ ai_outcome = "none"
    /\ (Pressed /\ problem_data # <<>>
          /\ \A k \in DOMAIN problem_data : problem_data[k].Count = 0) =>
          /\ ErrNoValidCounts \in shown
          /\ ParetoChart \notin shown /\ HeatmapChart \notin shown
          /\ ai_calls = 0 /\ ai_outcome = "none"
    /\ problem_data # <<>> =>
          /\ PositiveCounts(GroupBySum(ZeroCounts(problem_data))) = {}
          /\ HeatmapPivot(HeatmapEntries(default_problem_to_part_mapping,
                                         ZeroCounts(problem_data))) = <<>>
          /\ NumTop(<<>>) = 0

C7_Witness ==
    /\ pc = "done"
    /\ i = 2
    /\ problem_data = <<>>
    /\ shown = { WarnNoEntries }

(* C8: one Analyze action calls the service at most once; a failed call is *)
(* shown as an error, is not retried, and its exception does not leave the *)
(* action: the run goes on to the download buttons.                        *)
C8_OneCallNoEscape ==
    /\ ai_calls <= 1
    /\ ~uncaught
    /\ ai_outcome # "none" => ai_calls = 1 /\ pc = "done"
    /\ ai_outcome = "APIError" => ErrApi \in shown /\ DownloadRaw \in shown
    /\ ai_outcome = "Exception" => ErrUnexpected \in shown /\ DownloadRaw \in shown

C8_Witness ==
    /\ pc = "done"
    /\ ai_outcome = "Exception"
    /\ ai_calls = 1
    /\ ErrUnexpected \in shown
    /\ DownloadRaw \in shown

PartsOfEntries(p) ==
    LET es == SelectSeq(heatmap_entries, LAMBDA r : r.Problem = p)
    IN  [k \in DOMAIN es |-> es[k].Part]

Repeats(parts, list) ==
    /\ Len(parts) % Len(list) = 0
    /\ \A k \in DOMAIN parts : parts[k] = list[((k - 1) % Len(list)) + 1]

HeatmapLookupsRight ==
    \A p \in Problems(problem_data) :
        /\ Len(PartsOfEntries(p)) =
             Len(RowsOf(problem_data, p)) *
             (IF p \in DOMAIN StaticMapping THEN Len(StaticMapping[p]) ELSE 1)
        /\ Repeats(PartsOfEntries(p),
                   IF p \in DOMAIN StaticMapping THEN StaticMapping[p]
                   ELSE <<"Unmapped/Other">>)

HeatmapCell(p, part) ==
    IF p \in DOMAIN heatmap_pivot_data THEN heatmap_pivot_data[p][part] ELSE 0

ExpectedParts(p) ==
    IF p \in DOMAIN StaticMapping THEN Range(StaticMapping[p]) ELSE { "Unmapped/Other" }

RECURSIVE RowSum(_, _)
RowSum(p, parts) ==
    IF parts = <<>> THEN 0 ELSE HeatmapCell(p, parts[1]) + RowSum(p, Tail(parts))

(* C10: for every problem P of the raw entries and every part M of the     *)
(* heatmap columns, cell (P, M) is the sum of the counts of the entries    *)
(* named P when M is one of P's mapped parts (or "Unmapped/Other" for an   *)
(* unmapped P) and 0 otherwise; a problem mapped to n parts adds n times   *)
(* its total to the heatmap, and all-zero rows are omitted.                *)
C10_HeatmapCells ==
    (Pressed /\ problem_data # <<>>) =>
        /\ \A p \in Problems(problem_data) :
             /\ \A part \in Range(machine_parts_list_for_heatmap) :
                  HeatmapCell(p, part) =
                     IF part \in ExpectedParts(p)
                     THEN SumCount(RowsOf(problem_data, p)) ELSE 0
             /\ RowSum(p, machine_parts_list_for_heatmap) =
                  Cardinality(ExpectedParts(p)) * SumCount(RowsOf(problem_data, p))
        /\ DOMAIN heatmap_pivot_data =
             { p \in Problems(problem_data) : SumCount(RowsOf(problem_data, p)) # 0 }

C10_Witness ==
    /\ pc = "done"
    /\ Len(RowsOf(problem_data, "Uneven wall thickness")) = 2
    /\ HeatmapCell("Uneven wall thickness", "Die/mandrel") = 5
    /\ HeatmapCell("Uneven wall thickness", "Extruder head") = 5
    /\ HeatmapCell("Uneven wall thickness", "Feeding system") = 0
    /\ HeatmapCell("Custom defect", "Unmapped/Other") = 1
    /\ HeatmapChart \in shown

====
